---- MODULE Spec2Model ----
(***************************************************************************)
(* Authentication and session-token lifecycle of the SportHub backend:     *)
(* signup, email confirmation, login, refresh-token rotation and the two   *)
(* "current user" resolvers, over a credential store, a JWT codec and a    *)
(* key-value identity cache.                                               *)
(*                                                                         *)
(* Every HTTP handler is a process whose steps are cut at the points where *)
(* the coroutine talks to the database (read / commit); what the handler   *)
(* computes between two such points is local and part of one step.         *)
(* Names the modules use without importing them (auth_service,             *)
(* TokenSchema, MessageType, ...) are taken to be the objects of the same  *)
(* name defined in app/services/auth.py, app/schemas/auth_schemas.py and   *)
(* fastapi_mail.                                                           *)
(***************************************************************************)
EXTENDS Integers, Sequences, FiniteSets, TLC

\* ---------------------------------------------------------------- bounds
MaxTicks == 1
MaxLog == 4

\* request slots (clients), and the inputs the clients try
Procs == {"c1", "c2"}
Client == "c1"
Emails == {"u1", "u2"}
SignupEmails == {"u1"}
SignupPasswords == {"pw1"}
Avatars == {"a1"}
Passwords == {"pw1", "pw2"}

\* ------------------------------------------------------ program constants
ACCESS_TTL == 900
REFRESH_TTL == 604800
EMAIL_TTL == 86400
CACHE_TTL == 300

SECRET_KEY == "SECRET_KEY_JWT"
FORGED_KEY == "other key"

\* the clock advances by a second, or by enough for every token to expire
TickSteps == {1, REFRESH_TTL + 1}

\* messages of app/conf/messages.py: the two login failures for an unknown
\* email and for a wrong password carry the same text
INVALID_EMAIL == "Invalid credentials"
INVALID_PASSWORD == "Invalid credentials"
NOT_CONFIRMED == "Email not confirmed"
ACCOUNT_EXISTS == "Account already exists"
VERIFICATION_ERROR == "Verification error"
EMAIL_CONFIRMED_ERROR == "Your email is already confirmed"
EMAIL_CONFIRMED == "Email confirmed"
CHECK_EMAIL == "messages.CHECK_EMAIL"

\* ------------------------------------------------------------- data types
NoToken == [scope |-> "null"]
NoUser == [email |-> "null"]
NoScope == "no scope"
NoRole == "no role attribute"
NoAvatar == "no avatar"

\* the users table row as the ORM maps it (entity/models.py): confirmed defaults
\* to False, refresh_token to NULL, and the class declares no role; id, username
\* and the timestamps play no part in the token lifecycle
User(email, password) ==
    [email |-> email, password |-> password, confirmed |-> FALSE, refresh_token |-> NoToken,
     avatar |-> NoAvatar, role |-> NoRole]

\* passlib bcrypt: the hash is not the plaintext, verify() accepts exactly the
\* plaintext the hash was made from
get_password_hash(password) == <<"bcrypt", password>>

verify_password(plain_password, hashed_password) ==
    hashed_password = <<"bcrypt", plain_password>>

\* jose.jwt.encode under HS256 is a deterministic function of the claims and
\* the key; datetime claims are truncated to whole seconds.  A token is
\* represented by its claims and the key that signed it.
jwt_encode(sub, iat, exp, scope, key) ==
    [sub |-> sub, iat |-> iat, exp |-> exp, scope |-> scope, key |-> key]

\* jose.jwt.decode: JWTError on a bad signature or when exp < now (no leeway)
jwt_decode_ok(token, t) ==
    /\ token.key = SECRET_KEY
    /\ ~(token.exp < t)

create_access_token(email, t) ==
    jwt_encode(email, t, t + ACCESS_TTL, "access_token", SECRET_KEY)

create_refresh_token(email, t) ==
    jwt_encode(email, t, t + REFRESH_TTL, "refresh_token", SECRET_KEY)

create_email_token(email, t) ==
    jwt_encode(email, t, t + EMAIL_TTL, NoScope, SECRET_KEY)

Response(status, detail) ==
    [status |-> status, detail |-> detail, access_token |-> NoToken, refresh_token |-> NoToken]

TokenResponse(at, rt) ==
    [status |-> 200, detail |-> "bearer", access_token |-> at, refresh_token |-> rt]

NoResponse == Response(0, "")

\* Auth.decode_form_refresh_token: the outcome for a presented token
decode_form_refresh_token(token, t) ==
    IF ~jwt_decode_ok(token, t) THEN Response(401, "Could not validate credentials")
    ELSE IF token.scope = NoScope THEN Response(500, "KeyError: 'scope'")
    ELSE IF token.scope = "refresh_token" THEN Response(200, token.sub)
    ELSE Response(401, "Invalid scope for token")

\* Auth.get_email_from_token
get_email_from_token(token, t) ==
    IF ~jwt_decode_ok(token, t)
    THEN Response(422, "Invalid token for email verification")
    ELSE Response(200, token.sub)

\* the token check at the head of Auth.get_current_user
auth_decode_access_token(token, t) ==
    IF ~jwt_decode_ok(token, t) THEN Response(401, "Could not validate credentials")
    ELSE IF token.scope = NoScope THEN Response(500, "KeyError: 'scope'")
    ELSE IF token.scope = "access_token" THEN Response(200, token.sub)
    ELSE Response(401, "Could not validate credentials")

\* core.security.decode_jwt followed by the sub check of core.deps.get_current_user
deps_decode_token(token, t) ==
    IF ~jwt_decode_ok(token, t) THEN Response(401, "Invalid or expired token")
    ELSE Response(200, token.sub)

\* ------------------------------------------------------------------ state
VARIABLES
    now,        \* the UTC clock, in seconds
    ticks,      \* how many times the clock has advanced
    db,         \* the users table: email -> row or NoUser
    cache,      \* the Redis identity cache: email -> cached row or NoUser
    issued,     \* every token handed out so far (what a client can present)
    req,        \* per request slot: the handler in flight, its position and locals
    last,       \* the request answered most recently, with its response
    lastIssued, \* email -> refresh token most recently created for it
    log,        \* observer: the last MaxLog answers that touched a session
    rotations,  \* observer: the successful refreshes, by slot
    rows,       \* observer: email -> number of rows the users table holds for it
    cached_at,  \* observer: email -> when the cache entry of the email was last set
    migrated    \* whether the migration that adds users.role NOT NULL was applied

vars == <<now, ticks, db, cache, issued, req, last, lastIssued, log, rotations, rows,
          cached_at, migrated>>

Idle ==
    [op |-> "none", pc |-> "idle", email |-> "", password |-> "", token |-> NoToken,
     user |-> NoUser, at |-> NoToken, rt |-> NoToken, resolved |-> NoUser,
     url |-> NoAvatar, resp |-> NoResponse, stored |-> NoToken]

Init ==
    /\ now = 0
    /\ ticks = 0
    /\ db = [e \in Emails |-> NoUser]
    /\ cache = [e \in Emails |-> NoUser]
    /\ issued = {}
    /\ req = [p \in Procs |-> Idle]
    /\ last = Idle
    /\ lastIssued = [e \in Emails |-> NoToken]
    /\ log = <<>>
    /\ rotations = {}
    /\ rows = [e \in Emails |-> 0]
    /\ cached_at = [e \in Emails |-> 0]
    /\ migrated \in BOOLEAN

Free(p) == req[p].pc = "idle"

\* tokens a client can put in a request: any token handed out so far, or one
\* signed with a key that is not the server's
ForgedToken == jwt_encode("u1", 0, 10 * REFRESH_TTL, "access_token", FORGED_KEY)

Presentable == issued \cup {ForgedToken}

Append4(s, e) == IF Len(s) < MaxLog THEN Append(s, e) ELSE Append(Tail(s), e)

StoredToken(store, email) ==
    IF email \in Emails /\ store[email] # NoUser THEN store[email].refresh_token ELSE NoToken

\* the handler of slot p answers: r are its locals, resp the response, store
\* the users table the answer leaves behind
Answer(p, r, resp, store) ==
    LET e == [r EXCEPT !.pc = "done", !.resp = resp,
                       !.stored = StoredToken(store, IF r.email = "" /\ r.token # NoToken
                                                     THEN r.token.sub ELSE r.email)]
    IN  /\ req' = [req EXCEPT ![p] = Idle]
        /\ last' = e

Continue(p, r) ==
    /\ req' = [req EXCEPT ![p] = r]
    /\ UNCHANGED last

\* ------------------------------------------------------------------ clock
Tick(steps) ==
    /\ ticks < MaxTicks
    /\ \E d \in steps : now' = now + d
    /\ ticks' = ticks + 1
    /\ UNCHANGED <<db, cache, issued, req, last, lastIssued>>

\* a revocation (token = null) that is not written
update_token_keeps_on_revoke(user, token, store) ==
    IF user.refresh_token = token \/ token = NoToken THEN store
    ELSE [store EXCEPT ![user.email].refresh_token = token]

\* a token that is only stored when the row holds none
update_token_if_null(user, token, store) ==
    IF user.refresh_token # NoToken THEN store
    ELSE [store EXCEPT ![user.email].refresh_token = token]

\* rows are written with UPDATE ... SET refresh_token: SQLAlchemy emits the
\* statement only when the attribute differs from the value the session loaded
update_token(user, token, store) ==
    IF user.refresh_token = token THEN store
    ELSE [store EXCEPT ![user.email].refresh_token = token]

\* --------------------------------------------------- POST /auth/signup
SignupStart(p, email, password) ==
    /\ Free(p)
    /\ LET r == [Idle EXCEPT !.op = "signup", !.email = email, !.password = password,
                             !.user = db[email]]
       IN  IF db[email] # NoUser
           THEN Answer(p, r, Response(409, ACCOUNT_EXISTS), db)
           ELSE Continue(p, [r EXCEPT !.pc = "su_insert"])
    /\ UNCHANGED <<now, ticks, db, cache, issued, lastIssued>>

\* an INSERT that the table accepts whatever it holds
insert_rejected_never(store, email, role_column) == FALSE

\* the INSERT create_user commits is rejected when a row with the email exists
\* (email is UNIQUE), and when the table has the role column: NOT NULL, without
\* a default, and the mapped class has no such attribute to send
insert_rejected(store, email, role_column) == store[email] # NoUser \/ role_column

\* the password is hashed, create_user commits the INSERT, then the background
\* task send_email builds the verification token and mails it
SignupInsert(p) ==
    /\ req[p].pc = "su_insert"
    /\ LET r == req[p] IN
       IF insert_rejected(db, r.email, migrated)
       THEN /\ Answer(p, r, Response(500, "IntegrityError"), db)
            /\ UNCHANGED <<db, issued>>
       ELSE /\ db' = [db EXCEPT ![r.email] = User(r.email, get_password_hash(r.password))]
            /\ issued' = issued \cup {create_email_token(r.email, now)}
            /\ Answer(p, r, Response(201, r.email), db')
    /\ UNCHANGED <<now, ticks, cache, lastIssued>>

\* ------------------------------------- GET /auth/confirmed_email/{token}
\* a confirmation that does not look at the flag
confirm_check_unguarded(user) ==
    IF user = NoUser THEN Response(400, VERIFICATION_ERROR)
    ELSE Response(0, "confirm")

\* the checks of confirmed_email on the row it read; 0 stands for "go on"
confirm_check(user) ==
    IF user = NoUser THEN Response(400, VERIFICATION_ERROR)
    ELSE IF user.confirmed THEN Response(200, EMAIL_CONFIRMED_ERROR)
    ELSE Response(0, "confirm")

ConfirmStart(p, token) ==
    /\ Free(p)
    /\ LET d == get_email_from_token(token, now)
           r0 == [Idle EXCEPT !.op = "confirm", !.token = token]
       IN  IF d.status # 200 THEN Answer(p, r0, d, db)
           ELSE LET user == db[d.detail]
                    r1 == [r0 EXCEPT !.email = d.detail, !.user = user]
                IN  IF confirm_check(user).status # 0
                    THEN Answer(p, r1, confirm_check(user), db)
                    ELSE Continue(p, [r1 EXCEPT !.pc = "ce_commit"])
    /\ UNCHANGED <<now, ticks, db, cache, issued, lastIssued>>

ConfirmCommit(p) ==
    /\ req[p].pc = "ce_commit"
    /\ db' = [db EXCEPT ![req[p].email].confirmed = TRUE]
    /\ Answer(p, req[p], Response(200, EMAIL_CONFIRMED), db')
    /\ UNCHANGED <<now, ticks, cache, issued, lastIssued>>

\* ---------------------------------------------------- POST /auth/login
\* login without the confirmed check
login_check_unconfirmed(user, password) ==
    IF user = NoUser THEN Response(401, INVALID_EMAIL)
    ELSE IF ~verify_password(password, user.password) THEN Response(401, INVALID_PASSWORD)
    ELSE Response(200, "")

\* login that answers 404 for an unknown email
login_check_404(user, password) ==
    IF user = NoUser THEN Response(404, INVALID_EMAIL)
    ELSE IF ~user.confirmed THEN Response(401, NOT_CONFIRMED)
    ELSE IF ~verify_password(password, user.password) THEN Response(401, INVALID_PASSWORD)
    ELSE Response(200, "")

\* login that verifies the password before it looks at confirmed
login_check_password_first(user, password) ==
    IF user = NoUser THEN Response(401, INVALID_EMAIL)
    ELSE IF ~verify_password(password, user.password) THEN Response(401, INVALID_PASSWORD)
    ELSE IF ~user.confirmed THEN Response(401, NOT_CONFIRMED)
    ELSE Response(200, "")

login_check(user, password) ==
    IF user = NoUser THEN Response(401, INVALID_EMAIL)
    ELSE IF ~user.confirmed THEN Response(401, NOT_CONFIRMED)
    ELSE IF ~verify_password(password, user.password) THEN Response(401, INVALID_PASSWORD)
    ELSE Response(200, "")

LoginStart(p, email, password) ==
    /\ Free(p)
    /\ LET user == db[email]
           c == login_check(user, password)
           r == [Idle EXCEPT !.op = "login", !.email = email, !.password = password,
                             !.user = user]
       IN  IF c.status # 200
           THEN /\ Answer(p, r, c, db)
                /\ UNCHANGED lastIssued
           ELSE /\ Continue(p, [r EXCEPT !.pc = "lg_commit",
                                         !.at = create_access_token(user.email, now),
                                         !.rt = create_refresh_token(user.email, now)])
                /\ lastIssued' = [lastIssued EXCEPT ![email] = create_refresh_token(user.email, now)]
    /\ UNCHANGED <<now, ticks, db, cache, issued>>

LoginCommit(p) ==
    /\ req[p].pc = "lg_commit"
    /\ LET r == req[p] IN
           /\ db' = update_token(r.user, r.rt, db)
           /\ issued' = issued \cup {r.at, r.rt}
           /\ Answer(p, r, TokenResponse(r.at, r.rt), db')
    /\ UNCHANGED <<now, ticks, cache, lastIssued>>

\* ------------------------------------------------ GET /auth/refresh_token
\* a comparison that accepts any token while the row holds one
refresh_token_matches_any(user, token) == user.refresh_token # NoToken

\* a comparison that accepts no token
refresh_token_matches_none(user, token) == FALSE

\* the comparison of the stored token with the presented one
refresh_token_matches(user, token) == user.refresh_token = token

RefreshStart(p, token) ==
    /\ Free(p)
    /\ LET d == decode_form_refresh_token(token, now)
           r == [Idle EXCEPT !.op = "refresh", !.token = token]
       IN  IF d.status # 200
           THEN Answer(p, r, d, db)
           ELSE Continue(p, [r EXCEPT !.pc = "rt_check", !.email = d.detail,
                                      !.user = db[d.detail]])
    /\ UNCHANGED <<now, ticks, db, cache, issued, lastIssued>>

RefreshCheck(p) ==
    /\ req[p].pc = "rt_check"
    /\ LET r == req[p] IN
       IF r.user = NoUser
       THEN /\ Answer(p, r, Response(500, "AttributeError: 'NoneType' object has no attribute 'refresh_token'"), db)
            /\ UNCHANGED <<db, lastIssued>>
       ELSE IF ~refresh_token_matches(r.user, r.token)
       THEN /\ db' = update_token(r.user, NoToken, db)
            /\ Answer(p, r, Response(401, "Invalid refresh token"), db')
            /\ UNCHANGED lastIssued
       ELSE /\ Continue(p, [r EXCEPT !.pc = "rt_commit",
                                     !.at = create_access_token(r.email, now),
                                     !.rt = create_refresh_token(r.email, now)])
            /\ lastIssued' = [lastIssued EXCEPT ![r.email] = create_refresh_token(r.email, now)]
            /\ UNCHANGED db
    /\ UNCHANGED <<now, ticks, cache, issued>>

RefreshCommit(p) ==
    /\ req[p].pc = "rt_commit"
    /\ LET r == req[p] IN
           /\ db' = update_token(r.user, r.rt, db)
           /\ issued' = issued \cup {r.at, r.rt}
           /\ Answer(p, r, TokenResponse(r.at, r.rt), db')
    /\ UNCHANGED <<now, ticks, cache, lastIssued>>

\* ------------------- GET /users/me: Depends(auth_service.get_current_user)
\* a key of the Redis cache: SET stores the value without a time to live (and
\* drops the one the key had), EXPIRE gives the key one; a key whose time to
\* live has run out is gone
CacheEntry(user, volatile, expires) == [user |-> user, volatile |-> volatile, expires |-> expires]

cache_set(store, key, user) == [store EXCEPT ![key] = CacheEntry(user, FALSE, 0)]

cache_expire(store, key, t) ==
    IF store[key] = NoUser THEN store
    ELSE [store EXCEPT ![key] = CacheEntry(store[key].user, TRUE, t + CACHE_TTL)]

Live(store, key, t) ==
    store[key] # NoUser /\ (store[key].volatile => t < store[key].expires)

cache_get(key) == IF Live(cache, key, now) THEN cache[key].user ELSE NoUser

CacheDown == Response(500, "redis.exceptions.ConnectionError")

\* the head of Auth.get_current_user: the token check, then the cache lookup.
\* hit is what cache.get returned (NoUser: nothing); 0 stands for "go on"
resolve_lookup(token, t, hit) ==
    LET d == auth_decode_access_token(token, t) IN
    IF d.status # 200 THEN d
    ELSE IF hit = NoUser THEN Response(0, "miss")
    ELSE Response(200, d.detail)

\* up: whether the cache answers the call (FALSE: the client raises)
MeStart(p, token, up) ==
    /\ Free(p)
    /\ LET d == auth_decode_access_token(token, now)
           r0 == [Idle EXCEPT !.op = "me", !.token = token]
       IN  IF d.status # 200 THEN Answer(p, r0, d, db)
           ELSE IF ~up THEN Answer(p, [r0 EXCEPT !.email = d.detail], CacheDown, db)
           ELSE LET r1 == [r0 EXCEPT !.email = d.detail]
                    c == resolve_lookup(token, now, cache_get(d.detail))
                IN  IF c.status = 200
                    THEN Answer(p, [r1 EXCEPT !.resolved = cache_get(d.detail)], c, db)
                    ELSE Continue(p, [r1 EXCEPT !.pc = "me_read"])
    /\ UNCHANGED <<now, ticks, db, cache, issued, lastIssued>>

\* cache miss: the row is read, stored with the synchronous client's set(), and
\* awaiting the bool that set() returned raises TypeError before expire() runs
MeRead(p, up) ==
    /\ req[p].pc = "me_read"
    /\ LET r == req[p]
           user == db[r.email]
       IN  IF user = NoUser
           THEN /\ Answer(p, r, Response(401, "Could not validate credentials"), db)
                /\ UNCHANGED cache
           ELSE IF ~up
           THEN /\ Answer(p, [r EXCEPT !.user = user], CacheDown, db)
                /\ UNCHANGED cache
           ELSE /\ cache' = cache_set(cache, r.email, user)
                /\ Answer(p, [r EXCEPT !.user = user],
                          Response(500, "TypeError: object bool can't be used in 'await' expression"), db)
    /\ UNCHANGED <<now, ticks, db, issued, lastIssued>>

\* ------------- PATCH /users/avatar: Depends(auth_service.get_current_user)
AvatarStart(p, token, url, up) ==
    /\ Free(p)
    /\ LET d == auth_decode_access_token(token, now)
           r0 == [Idle EXCEPT !.op = "avatar", !.token = token, !.url = url]
       IN  IF d.status # 200 THEN Answer(p, r0, d, db)
           ELSE IF ~up THEN Answer(p, [r0 EXCEPT !.email = d.detail], CacheDown, db)
           ELSE LET r1 == [r0 EXCEPT !.email = d.detail]
                    c == resolve_lookup(token, now, cache_get(d.detail))
                IN  IF c.status = 200
                    THEN Continue(p, [r1 EXCEPT !.pc = "av_commit", !.resolved = cache_get(d.detail)])
                    ELSE Continue(p, [r1 EXCEPT !.pc = "av_read"])
    /\ UNCHANGED <<now, ticks, db, cache, issued, lastIssued>>

\* the dependency on a cache miss: as for GET /users/me, the handler is not reached
AvatarRead(p, up) ==
    /\ req[p].pc = "av_read"
    /\ LET r == req[p]
           user == db[r.email]
       IN  IF user = NoUser
           THEN /\ Answer(p, r, Response(401, "Could not validate credentials"), db)
                /\ UNCHANGED cache
           ELSE IF ~up
           THEN /\ Answer(p, [r EXCEPT !.user = user], CacheDown, db)
                /\ UNCHANGED cache
           ELSE /\ cache' = cache_set(cache, r.email, user)
                /\ Answer(p, [r EXCEPT !.user = user],
                          Response(500, "TypeError: object bool can't be used in 'await' expression"), db)
    /\ UNCHANGED <<now, ticks, db, issued, lastIssued>>

\* the image is uploaded, update_avatar_url reads the row by the email of the
\* resolved identity, replaces the avatar and commits
AvatarCommit(p) ==
    /\ req[p].pc = "av_commit"
    /\ LET r == req[p]
           user == db[r.email]
       IN  IF user = NoUser
           THEN /\ Answer(p, r, Response(500, "AttributeError: 'NoneType' object has no attribute 'avatar'"), db)
                /\ UNCHANGED db
           ELSE /\ db' = [db EXCEPT ![r.email].avatar = r.url]
                /\ Continue(p, [r EXCEPT !.pc = "av_set", !.user = db'[r.email]])
    /\ UNCHANGED <<now, ticks, cache, issued, lastIssued>>

AvatarSet(p, up) ==
    /\ req[p].pc = "av_set"
    /\ LET r == req[p] IN
       IF ~up
       THEN /\ Answer(p, r, CacheDown, db)
            /\ UNCHANGED cache
       ELSE /\ cache' = cache_set(cache, r.email, r.user)
            /\ Continue(p, [r EXCEPT !.pc = "av_expire"])
    /\ UNCHANGED <<now, ticks, db, issued, lastIssued>>

AvatarExpire(p, up) ==
    /\ req[p].pc = "av_expire"
    /\ LET r == req[p] IN
       IF ~up
       THEN /\ Answer(p, r, CacheDown, db)
            /\ UNCHANGED cache
       ELSE /\ cache' = cache_expire(cache, r.email, now)
            /\ Answer(p, [r EXCEPT !.resolved = r.user], Response(200, r.email), db)
    /\ UNCHANGED <<now, ticks, db, issued, lastIssued>>

\* ------------------------------------------------ POST /auth/request_email
\* user.confirmed is read before `if user:`; the background task send_email
\* builds the verification token and mails it
RequestEmail(p, email) ==
    /\ Free(p)
    /\ LET user == db[email]
           r == [Idle EXCEPT !.op = "request_email", !.email = email, !.user = user]
       IN  IF user = NoUser
           THEN /\ Answer(p, r, Response(500, "AttributeError: 'NoneType' object has no attribute 'confirmed'"), db)
                /\ UNCHANGED issued
           ELSE IF user.confirmed
           THEN /\ Answer(p, r, Response(200, EMAIL_CONFIRMED_ERROR), db)
                /\ UNCHANGED issued
           ELSE /\ issued' = issued \cup {create_email_token(user.email, now)}
                /\ Answer(p, r, Response(200, CHECK_EMAIL), db)
    /\ UNCHANGED <<now, ticks, db, cache, lastIssued>>

\* ------------------------------------- the database, outside the handlers
\* a row removed by whoever operates the database; no handler deletes one
DeleteUser(email) ==
    /\ db[email] # NoUser
    /\ db' = [db EXCEPT ![email] = NoUser]
    /\ UNCHANGED <<now, ticks, cache, issued, req, last, lastIssued>>

\* --------------------- GET /protected/me: Depends(core.deps.get_current_user)
deps_get_current_user(token, t, store) ==
    LET d == deps_decode_token(token, t) IN
    IF d.status # 200 THEN NoUser ELSE store[d.detail]

ProtectedMe(p, token) ==
    /\ Free(p)
    /\ LET d == deps_decode_token(token, now)
           r0 == [Idle EXCEPT !.op = "protected_me", !.token = token]
           user == deps_get_current_user(token, now, db)
       IN  IF d.status # 200 THEN Answer(p, r0, d, db)
           ELSE IF user = NoUser
           THEN Answer(p, [r0 EXCEPT !.email = d.detail], Response(401, "User not found"), db)
           ELSE Answer(p, [r0 EXCEPT !.email = d.detail, !.user = user, !.resolved = user],
                       Response(500, "AttributeError: 'User' object has no attribute 'role'"), db)
    /\ UNCHANGED <<now, ticks, db, cache, issued, lastIssued>>

\* ------------- GET /protected/admin_only: Depends(core.deps.get_current_admin)
\* current_user.role of an object of a class that declares no role
get_current_admin(current_user) ==
    IF current_user.role = NoRole
    THEN Response(500, "AttributeError: 'User' object has no attribute 'role'")
    ELSE IF current_user.role # "admin" THEN Response(403, "Not enough permissions")
    ELSE Response(200, "Hello, admin")

AdminOnly(p, token) ==
    /\ Free(p)
    /\ LET d == deps_decode_token(token, now)
           r0 == [Idle EXCEPT !.op = "admin_only", !.token = token]
           user == deps_get_current_user(token, now, db)
       IN  IF d.status # 200 THEN Answer(p, r0, d, db)
           ELSE IF user = NoUser
           THEN Answer(p, [r0 EXCEPT !.email = d.detail], Response(401, "User not found"), db)
           ELSE Answer(p, [r0 EXCEPT !.email = d.detail, !.user = user],
                       get_current_admin(user), db)
    /\ UNCHANGED <<now, ticks, db, cache, issued, lastIssued>>

\* ---------------------------------------------------------- specifications
AllFree == \A p \in Procs : Free(p)

SignupStartAny == \E p \in Procs, e \in SignupEmails, pw \in SignupPasswords : SignupStart(p, e, pw)
SignupInsertAny == \E p \in Procs : SignupInsert(p)
ConfirmStartAny == \E p \in Procs, t \in Presentable : ConfirmStart(p, t)
ConfirmCommitAny == \E p \in Procs : ConfirmCommit(p)
LoginStartAny == \E p \in Procs, e \in Emails, pw \in Passwords : LoginStart(p, e, pw)
LoginCommitAny == \E p \in Procs : LoginCommit(p)
RefreshStartAny == \E p \in Procs, t \in Presentable : RefreshStart(p, t)
RefreshCheckAny == \E p \in Procs : RefreshCheck(p)
RefreshCommitAny == \E p \in Procs : RefreshCommit(p)
MeStartAny == \E p \in Procs, t \in Presentable, up \in BOOLEAN : MeStart(p, t, up)
MeReadAny == \E p \in Procs, up \in BOOLEAN : MeRead(p, up)
ProtectedMeAny == \E p \in Procs, t \in Presentable : ProtectedMe(p, t)
AdminOnlyAny == \E p \in Procs, t \in Presentable : AdminOnly(p, t)
RequestEmailAny == \E p \in Procs, e \in Emails : RequestEmail(p, e)

\* the answers the observers record: the ones that create, rotate or revoke a
\* session.  All of them are given by a step that ends a request in flight.
Logged(e) ==
    \/ e.op = "login" /\ e.resp.status = 200
    \/ e.op = "refresh" /\ e.user # NoUser

Answered(p) == ~Free(p) /\ req'[p] = Idle

Rotation(p) == [token |-> last'.token, rt |-> last'.resp.refresh_token, by |-> p]

\* what every step leaves behind in the table and the cache: a 201 of signup is
\* a row inserted, a key stored without a time to live is a set(); the schema
\* does not change while the application runs
Observe(A) ==
    /\ A
    /\ rows' = [e \in Emails |->
                    IF db'[e] = NoUser THEN 0
                    ELSE IF (\E p \in Procs : Answered(p)) /\ last'.op = "signup"
                            /\ last'.resp.status = 201 /\ last'.email = e
                    THEN rows[e] + 1
                    ELSE rows[e]]
    /\ cached_at' = [e \in Emails |->
                        IF cache'[e] # cache[e] /\ cache'[e] # NoUser /\ ~cache'[e].volatile
                        THEN now ELSE cached_at[e]]
    /\ UNCHANGED migrated

\* concurrent requests: the slots interleave at every database round trip
Concurrent(A) ==
    /\ Observe(A)
    /\ rotations' = rotations \cup
            {Rotation(p) : p \in {q \in Procs : Answered(q) /\ last'.op = "refresh"
                                                /\ last'.resp.status = 200}}
    /\ UNCHANGED log

\* sequential requests: a request is sent after the previous one was answered
Sequential(A) ==
    /\ Observe(A)
    /\ log' = IF (\E p \in Procs : Answered(p)) /\ Logged(last')
              THEN Append4(log, last') ELSE log
    /\ UNCHANGED rotations

Next ==
    \/ Concurrent(Tick(TickSteps))
    \/ Concurrent(SignupStartAny)
    \/ Concurrent(SignupInsertAny)
    \/ Concurrent(ConfirmStartAny)
    \/ Concurrent(ConfirmCommitAny)
    \/ Concurrent(LoginStartAny)
    \/ Concurrent(LoginCommitAny)
    \/ Concurrent(RefreshStartAny)
    \/ Concurrent(RefreshCheckAny)
    \/ Concurrent(RefreshCommitAny)

Spec == Init /\ [][Next]_vars

\* the tokens a client holds for one purpose
OfScope(scope) == {t \in issued : t.scope = scope}

\* one client that signs up, confirms with the mailed token, logs in with the
\* password it registered and refreshes with refresh tokens it was given, within
\* the lifetime of the tokens
SeqNext ==
    \/ Sequential(Tick({1}))
    \/ Sequential(AllFree /\ \E e \in SignupEmails, pw \in SignupPasswords : SignupStart(Client, e, pw))
    \/ Sequential(SignupInsert(Client))
    \/ Sequential(AllFree /\ \E t \in OfScope(NoScope) : ConfirmStart(Client, t))
    \/ Sequential(ConfirmCommit(Client))
    \/ Sequential(AllFree /\ \E e \in SignupEmails, pw \in SignupPasswords : LoginStart(Client, e, pw))
    \/ Sequential(LoginCommit(Client))
    \/ Sequential(AllFree /\ \E t \in OfScope("refresh_token") : RefreshStart(Client, t))
    \/ Sequential(RefreshCheck(Client))
    \/ Sequential(RefreshCommit(Client))

SeqSpec == Init /\ [][SeqNext]_vars

\* the same client over a time in which its tokens expire
RecoverNext ==
    \/ Sequential(Tick(TickSteps))
    \/ Sequential(AllFree /\ \E e \in SignupEmails, pw \in SignupPasswords : SignupStart(Client, e, pw))
    \/ Sequential(SignupInsert(Client))
    \/ Sequential(AllFree /\ \E t \in OfScope(NoScope) : ConfirmStart(Client, t))
    \/ Sequential(ConfirmCommit(Client))
    \/ Sequential(AllFree /\ \E e \in SignupEmails, pw \in Passwords : LoginStart(Client, e, pw))
    \/ Sequential(LoginCommit(Client))
    \/ Sequential(AllFree /\ \E t \in OfScope("refresh_token") : RefreshStart(Client, t))
    \/ Sequential(RefreshCheck(Client))
    \/ Sequential(RefreshCommit(Client))

RecoverSpec == Init /\ [][RecoverNext]_vars

\* every handler, the two resolvers included, with every token a client can
\* present, one request at a time
Quiet(A) == Observe(A) /\ UNCHANGED <<log, rotations>>

ResolveNext ==
    \/ Quiet(Tick(TickSteps))
    \/ Quiet(AllFree /\ SignupStartAny)
    \/ Quiet(SignupInsertAny)
    \/ Quiet(AllFree /\ ConfirmStartAny)
    \/ Quiet(ConfirmCommitAny)
    \/ Quiet(AllFree /\ LoginStartAny)
    \/ Quiet(LoginCommitAny)
    \/ Quiet(AllFree /\ RefreshStartAny)
    \/ Quiet(RefreshCheckAny)
    \/ Quiet(RefreshCommitAny)
    \/ Quiet(AllFree /\ MeStartAny)
    \/ Quiet(MeReadAny)
    \/ Quiet(AllFree /\ ProtectedMeAny)
    \/ Quiet(AllFree /\ AdminOnlyAny)
    \/ Quiet(AllFree /\ RequestEmailAny)

ResolveSpec == Init /\ [][ResolveNext]_vars

\* registration under load: signups and confirmations for every email, the
\* slots interleaving at every database round trip
SignupNext ==
    \/ Concurrent(Tick({1}))
    \/ Concurrent(\E p \in Procs, e \in Emails, pw \in Passwords : SignupStart(p, e, pw))
    \/ Concurrent(SignupInsertAny)
    \/ Concurrent(\E p \in Procs, t \in OfScope(NoScope) : ConfirmStart(p, t))
    \/ Concurrent(ConfirmCommitAny)

SignupSpec == Init /\ [][SignupNext]_vars

\* the table without the cache: one client, every token it can present, and
\* rows removed in the database
StoreNext ==
    \/ Quiet(Tick(TickSteps))
    \/ Quiet(AllFree /\ \E e \in SignupEmails, pw \in SignupPasswords : SignupStart(Client, e, pw))
    \/ Quiet(SignupInsert(Client))
    \/ Quiet(AllFree /\ \E t \in Presentable : ConfirmStart(Client, t))
    \/ Quiet(ConfirmCommit(Client))
    \/ Quiet(AllFree /\ \E e \in Emails, pw \in Passwords : LoginStart(Client, e, pw))
    \/ Quiet(LoginCommit(Client))
    \/ Quiet(AllFree /\ \E t \in Presentable : RefreshStart(Client, t))
    \/ Quiet(RefreshCheck(Client))
    \/ Quiet(RefreshCommit(Client))
    \/ Quiet(AllFree /\ \E e \in Emails : DeleteUser(e))

StoreSpec == Init /\ [][StoreNext]_vars

\* the table and the cache: one client that uses each token for its purpose,
\* the avatar update, cache calls that fail, rows removed in the database, and
\* a clock that steps by the cache's time to live or past every token's expiry
OpsTickSteps == {CACHE_TTL, REFRESH_TTL + 1}

OpsNext ==
    \/ Quiet(Tick(OpsTickSteps))
    \/ Quiet(AllFree /\ \E e \in SignupEmails, pw \in SignupPasswords : SignupStart(Client, e, pw))
    \/ Quiet(SignupInsert(Client))
    \/ Quiet(AllFree /\ \E t \in OfScope(NoScope) : ConfirmStart(Client, t))
    \/ Quiet(ConfirmCommit(Client))
    \/ Quiet(AllFree /\ \E e \in SignupEmails, pw \in SignupPasswords : LoginStart(Client, e, pw))
    \/ Quiet(LoginCommit(Client))
    \/ Quiet(AllFree /\ \E t \in OfScope("refresh_token") : RefreshStart(Client, t))
    \/ Quiet(RefreshCheck(Client))
    \/ Quiet(RefreshCommit(Client))
    \/ Quiet(AllFree /\ \E t \in OfScope("access_token"), up \in BOOLEAN : MeStart(Client, t, up))
    \/ Quiet(\E up \in BOOLEAN : MeRead(Client, up))
    \/ Quiet(AllFree /\ \E t \in OfScope("access_token"), a \in Avatars, up \in BOOLEAN : AvatarStart(Client, t, a, up))
    \/ Quiet(\E up \in BOOLEAN : AvatarRead(Client, up))
    \/ Quiet(AvatarCommit(Client))
    \/ Quiet(\E up \in BOOLEAN : AvatarSet(Client, up))
    \/ Quiet(\E up \in BOOLEAN : AvatarExpire(Client, up))
    \/ Quiet(AllFree /\ \E e \in Emails : DeleteUser(e))

OpsSpec == Init /\ [][OpsNext]_vars

\* ------------------------------------------------- the JWT codec on its own
\* expires_delta as the issuing functions receive it: None, or a number
NoDelta == [given |-> FALSE, amount |-> 0]
Delta(n) == [given |-> TRUE, amount |-> n]
Deltas == {NoDelta, Delta(0), Delta(1)}

\* `if expires_delta:` is false for None and for 0
truthy(expires_delta) == expires_delta.given /\ expires_delta.amount # 0

\* Auth.create_access_token / create_refresh_token: expires_delta in seconds
Auth_create_access_token(sub, t, expires_delta) ==
    jwt_encode(sub, t,
               IF truthy(expires_delta) THEN t + expires_delta.amount ELSE t + ACCESS_TTL,
               "access_token", SECRET_KEY)

Auth_create_refresh_token(sub, t, expires_delta) ==
    jwt_encode(sub, t,
               IF truthy(expires_delta) THEN t + expires_delta.amount ELSE t + REFRESH_TTL,
               "refresh_token", SECRET_KEY)

\* core.security.create_access_token / create_refresh_token: expires_delta in
\* minutes (default 15 and 60 * 24 * 7), and a payload of exp and sub only: no
\* scope and no iat (the iat field of the representation is read by no decoder)
security_create_access_token(sub, t, expires_delta) ==
    jwt_encode(sub, t,
               t + 60 * (IF expires_delta.given THEN expires_delta.amount ELSE 15),
               NoScope, SECRET_KEY)

security_create_refresh_token(sub, t, expires_delta) ==
    jwt_encode(sub, t,
               t + 60 * (IF expires_delta.given THEN expires_delta.amount ELSE 60 * 24 * 7),
               NoScope, SECRET_KEY)

\* jose.jwt.decode: the claims of the payload, or JWTError
jwt_decode(token, t) ==
    IF jwt_decode_ok(token, t)
    THEN [ok |-> TRUE, sub |-> token.sub, scope |-> token.scope]
    ELSE [ok |-> FALSE, sub |-> "", scope |-> "JWTError"]

\* the issuing functions of the codebase, with the scope each is asked for
Issuers ==
    {"Auth.create_access_token", "Auth.create_refresh_token", "Auth.create_email_token",
     "security.create_access_token", "security.create_refresh_token"}

RequestedScope(fn) ==
    CASE fn \in {"Auth.create_access_token", "security.create_access_token"} -> "access_token"
      [] fn \in {"Auth.create_refresh_token", "security.create_refresh_token"} -> "refresh_token"
      [] OTHER -> NoScope

issue(fn, sub, t, expires_delta) ==
    CASE fn = "Auth.create_access_token" -> Auth_create_access_token(sub, t, expires_delta)
      [] fn = "Auth.create_refresh_token" -> Auth_create_refresh_token(sub, t, expires_delta)
      [] fn = "Auth.create_email_token" -> create_email_token(sub, t)
      [] fn = "security.create_access_token" -> security_create_access_token(sub, t, expires_delta)
      [] OTHER -> security_create_refresh_token(sub, t, expires_delta)

\* the decoding functions of the codebase
Decoders ==
    {"Auth.decode_form_refresh_token", "Auth.get_current_user", "Auth.get_email_from_token",
     "security.decode_jwt"}

decode(fn, token, t) ==
    CASE fn = "Auth.decode_form_refresh_token" -> decode_form_refresh_token(token, t)
      [] fn = "Auth.get_current_user" -> auth_decode_access_token(token, t)
      [] fn = "Auth.get_email_from_token" -> get_email_from_token(token, t)
      [] OTHER -> deps_decode_token(token, t)

\* a token is issued: the slot keeps it with the arguments of the call
Issue(fn, sub, expires_delta) ==
    /\ req[Client] = Idle
    /\ fn = "Auth.create_email_token" => expires_delta = NoDelta
    /\ req' = [req EXCEPT ![Client] =
                  [op |-> "issue", fn |-> fn, sub |-> sub, scope |-> RequestedScope(fn),
                   expires_delta |-> expires_delta, iat |-> now,
                   token |-> issue(fn, sub, now, expires_delta)]]
    /\ UNCHANGED <<now, ticks, db, cache, issued, last, lastIssued>>

\* the token in hand is decoded at the current time, and stays in hand
Decode(fn) ==
    /\ req[Client] # Idle
    /\ last' = [op |-> "decode", issue |-> req[Client], fn |-> fn, at |-> now,
                claims |-> jwt_decode(req[Client].token, now),
                resp |-> decode(fn, req[Client].token, now)]
    /\ UNCHANGED <<now, ticks, db, cache, issued, req, lastIssued>>

\* the clock reaches each default expiry, the second before and the second after
CodecTickSteps ==
    {1, ACCESS_TTL - 1, ACCESS_TTL, ACCESS_TTL + 1, EMAIL_TTL - 1, EMAIL_TTL, EMAIL_TTL + 1,
     REFRESH_TTL - 1, REFRESH_TTL, REFRESH_TTL + 1}

Codec(A) == A /\ UNCHANGED <<log, rotations, rows, cached_at, migrated>>

CodecNext ==
    \/ Codec(Tick(CodecTickSteps))
    \/ Codec(\E fn \in Issuers, sub \in Emails, d \in Deltas : Issue(fn, sub, d))
    \/ Codec(\E fn \in Decoders : Decode(fn))

CodecSpec == Init /\ [][CodecNext]_vars

\* ------------------------------------------------------------------ claims
LoginOk(e) == e.op = "login" /\ e.resp.status = 200
RefreshOk(e) == e.op = "refresh" /\ e.resp.status = 200
TokenRevoked(e) == e.op = "refresh" /\ e.resp = Response(401, "Invalid refresh token")
Positions == 1..Len(log)
NoLoginBetween(i, k, email) ==
    \A l \in Positions : (i < l /\ l < k /\ log[l].email = email) => ~LoginOk(log[l])

\* C1 (SeqSpec): after a Login that issued R, the first refresh with R succeeds
\* and every later refresh with the same value R is answered 401 "Invalid
\* refresh token", also when the calls fall into one clock second.
C1_RefreshSucceedsOnce ==
    \A i, j, k \in Positions :
        ( /\ i < j /\ j < k
          /\ LoginOk(log[i])
          /\ RefreshOk(log[j]) /\ log[j].token = log[i].resp.refresh_token
          /\ log[k].op = "refresh" /\ log[k].token = log[j].token
          /\ NoLoginBetween(i, k, log[i].email) )
        => TokenRevoked(log[k])

\* C2 (Spec): of two refresh requests in flight together with the same valid
\* token, at most one rotates it: no token is exchanged for a new one by two
\* different requests.
C2_ExactlyOneRefreshWins ==
    \A x, y \in rotations :
        (x.token = y.token /\ x.rt # x.token /\ y.rt # y.token) => x.by = y.by

\* C3 (Spec): whenever no request is in flight, every user's stored
\* refresh_token is null or the refresh token most recently issued for the user.
C3_StoredIsLastIssued ==
    AllFree =>
        \A e \in Emails :
            db[e] # NoUser => db[e].refresh_token \in {NoToken, lastIssued[e]}

\* a refresh that reached the comparison and found the stored token different
Mismatch(e) == e.op = "refresh" /\ e.user # NoUser /\ e.user.refresh_token # e.token

\* C4 (SeqSpec): a refresh presenting a valid refresh token that differs from
\* the stored one is answered 401 "Invalid refresh token" and leaves the stored
\* token null; after it every refresh of that user, whatever token it presents,
\* is answered the same and the token stays null until a Login has succeeded.
C4_ReuseRevokes ==
    /\ Mismatch(last) => TokenRevoked(last) /\ last.stored = NoToken
    /\ RefreshOk(last) => last.user # NoUser /\ last.user.refresh_token = last.token
    /\ \A i, j \in Positions :
            ( /\ i < j
              /\ Mismatch(log[i])
              /\ log[j].op = "refresh" /\ log[j].email = log[i].email
              /\ NoLoginBetween(i, j, log[i].email) )
            => TokenRevoked(log[j]) /\ log[j].stored = NoToken

\* a superseded token was presented, and then the token it had been replaced by
C4_Witness ==
    \E i, j \in Positions :
        /\ i < j
        /\ Mismatch(log[i]) /\ log[i].user.refresh_token # NoToken
        /\ log[j].op = "refresh" /\ log[j].token = log[i].user.refresh_token
        /\ TokenRevoked(log[j])

\* Login -> R1, Refresh(R1) -> R2, Refresh(R1), Refresh(R2) as four consecutive
\* session answers of one user, R2 different from R1
Scenario(i) ==
    /\ i + 3 <= Len(log)
    /\ LoginOk(log[i])
    /\ RefreshOk(log[i + 1]) /\ log[i + 1].token = log[i].resp.refresh_token
    /\ log[i + 1].resp.refresh_token # log[i].resp.refresh_token
    /\ log[i + 2].op = "refresh" /\ log[i + 2].token = log[i].resp.refresh_token
    /\ log[i + 3].op = "refresh" /\ log[i + 3].token = log[i + 1].resp.refresh_token
    /\ \A d \in 1..3 : log[i + d].email = log[i].email

\* C5 as stated (SeqSpec): in the scenario the third call fails with
\* TokenRevoked and the fourth, Refresh(R2), succeeds with a new pair.
C5_ScenarioAsStated ==
    \A i \in Positions : Scenario(i) => TokenRevoked(log[i + 2]) /\ RefreshOk(log[i + 3])

\* C5 amended (SeqSpec): in the scenario the third call fails with TokenRevoked
\* and nulls the stored token, so the fourth call, Refresh(R2), fails with
\* TokenRevoked as well.
C5_ScenarioRevokesSession ==
    \A i \in Positions :
        Scenario(i) => /\ TokenRevoked(log[i + 2]) /\ log[i + 2].stored = NoToken
                       /\ TokenRevoked(log[i + 3])

C5_Witness == \E i \in Positions : Scenario(i)

\* C6 (SeqSpec): after two successful Logins of a user that issued R1 and then
\* a different R2 the stored token is R2, a later refresh with R1 is answered
\* 401 "Invalid refresh token", and a refresh only ever succeeds with the token
\* that is stored.
C6_LoginOverwrites ==
    /\ \A i, j \in Positions :
            ( /\ i < j
              /\ LoginOk(log[i]) /\ LoginOk(log[j]) /\ log[i].email = log[j].email
              /\ log[i].resp.refresh_token # log[j].resp.refresh_token )
            => /\ log[j].stored = log[j].resp.refresh_token
               /\ \A k \in Positions :
                    (j < k /\ log[k].op = "refresh" /\ log[k].token = log[i].resp.refresh_token)
                    => TokenRevoked(log[k])
    /\ \A k \in Positions : RefreshOk(log[k]) => log[k].user.refresh_token = log[k].token

C6_Witness ==
    \E i, j, k \in Positions :
        /\ i < j /\ j < k
        /\ LoginOk(log[i]) /\ LoginOk(log[j]) /\ log[i].email = log[j].email
        /\ log[i].resp.refresh_token # log[j].resp.refresh_token
        /\ log[k].op = "refresh" /\ log[k].token = log[i].resp.refresh_token
        /\ TokenRevoked(log[k])

\* C7 (ResolveSpec): a Login with the correct password is answered 401,
\* without tokens and without touching the stored token, while the
\* user's confirmed flag is false; a successful ConfirmEmail sets the flag, and
\* with the flag set the Login returns an access / refresh pair for the user.
C7_LoginNeedsConfirmation ==
    /\ ( /\ last.op = "login" /\ last.user # NoUser
         /\ verify_password(last.password, last.user.password) )
       => IF ~last.user.confirmed
          THEN /\ last.resp.status = 401
               /\ last.resp.access_token = NoToken /\ last.resp.refresh_token = NoToken
               /\ last.stored = last.user.refresh_token
          ELSE /\ last.resp.status = 200
               /\ last.resp.access_token.scope = "access_token"
               /\ last.resp.access_token.sub = last.email
               /\ last.resp.refresh_token.scope = "refresh_token"
               /\ last.resp.refresh_token.sub = last.email
    /\ (last.op = "confirm" /\ last.resp = Response(200, EMAIL_CONFIRMED))
       => db[last.email].confirmed

\* a Login answered with tokens, for a user whose verification token was mailed
C7_Witness ==
    /\ LoginOk(last) /\ last.user.confirmed
    /\ \E t \in issued : t.scope = NoScope /\ t.sub = last.email

\* C8 (ResolveSpec): the resolver of a protected endpoint, cached or not,
\* returns an identity only for a server-signed token of scope access_token; a
\* refresh token or an email-verification token never resolves to a user.
C8_OnlyAccessTokensResolve ==
    (last.op \in {"me", "protected_me"} /\ last.resolved # NoUser)
        => last.token.key = SECRET_KEY /\ last.token.scope = "access_token"

\* C9 (ResolveSpec): a refresh presenting a valid token whose scope is not
\* refresh_token is answered 401 "Invalid scope for token", returns no tokens
\* and leaves the users table as it was.
C9_WrongScopeRejected ==
    [][ ( /\ last' # last /\ last'.op = "refresh"
          /\ jwt_decode_ok(last'.token, now) /\ last'.token.scope # "refresh_token" )
        => /\ last'.resp = Response(401, "Invalid scope for token")
           /\ db' = db /\ issued' = issued ]_vars

\* the two login failures an outsider can provoke
UnknownEmail(e) == e.op = "login" /\ e.user = NoUser
WrongPassword(e) ==
    /\ e.op = "login" /\ e.user # NoUser /\ e.user.confirmed
    /\ ~verify_password(e.password, e.user.password)

AnswerStep == req'[Client] = Idle /\ (req[Client] # Idle \/ last' # last)

\* some request is answered in the step, by a handler in flight or at once
Answers == last' # last \/ \E p \in Procs : Answered(p)

C13_NoDuplicateAccount ==
    [][ /\ \A e \in Emails : rows'[e] <= 1
        /\ (Answers /\ last'.op = "signup" /\ last'.user # NoUser)
           => last'.resp.status = 409 /\ db' = db /\ rows' = rows ]_vars

\* a signup passed the existence check and lost the insert to another one
C13_Witness ==
    /\ last.op = "signup" /\ last.user = NoUser
    /\ last.resp = Response(500, "IntegrityError")
    /\ ~migrated /\ rows[last.email] = 1 /\ db[last.email] # NoUser

\* C14 (SignupSpec): the row a successful Signup inserts has confirmed = false,
\* role = "user" and refresh_token = null, and its password is the hash of the
\* submitted password, not the password itself.
C14_NewRecordDefaults ==
    [][ \A e \in Emails :
            (db[e] = NoUser /\ db'[e] # NoUser)
            => /\ ~db'[e].confirmed
               /\ db'[e].role = "user"
               /\ db'[e].refresh_token = NoToken
               /\ \E p \in Procs :
                     /\ req[p].op = "signup" /\ Answered(p) /\ req[p].email = e
                     /\ db'[e].password # req[p].password
                     /\ verify_password(req[p].password, db'[e].password) ]_vars

\* C15 (OpsSpec): ResolveCurrentUser with a valid access token, the cache
\* answering: on a hit it returns the cached identity without reading the
\* table; on a miss with the row present it returns the row and leaves a cache
\* entry for the email that expires after 300 seconds; on a miss with the row
\* absent it fails with 401 and writes no cache entry.
C15_ResolveContract ==
    [][ ( /\ AnswerStep /\ last'.op = "me"
          /\ auth_decode_access_token(last'.token, now).status = 200
          /\ last'.resp # CacheDown )
        => /\ (Free(Client) /\ cache_get(last'.email) # NoUser)
              => /\ last'.resp.status = 200
                 /\ last'.resolved = cache_get(last'.email)
                 /\ cache' = cache
           /\ (req[Client].pc = "me_read" /\ db[last'.email] # NoUser)
              => /\ last'.resp.status = 200
                 /\ last'.resolved = db[last'.email]
                 /\ cache'[last'.email] = CacheEntry(db[last'.email], TRUE, now + CACHE_TTL)
           /\ (req[Client].pc = "me_read" /\ db[last'.email] = NoUser)
              => /\ last'.resp.status = 401
                 /\ cache' = cache ]_vars

\* C16 (OpsSpec): in every reachable state every entry of the cache has a time
\* to live, of at most 300 seconds.
C16_EveryEntryExpires ==
    \A e \in Emails :
        Live(cache, e, now) => cache[e].volatile /\ cache[e].expires - now <= CACHE_TTL

\* C17 (OpsSpec): ResolveCurrentUser with a valid access token, the cache
\* answering and the row present: while the entry set less than 300 seconds ago
\* lives, the cached identity is returned whatever the table holds; once 300
\* seconds have passed since the entry was set, the row of the table is returned.
C17_StalenessBounded ==
    [][ ( /\ AnswerStep /\ last'.op = "me"
          /\ auth_decode_access_token(last'.token, now).status = 200
          /\ last'.resp # CacheDown
          /\ db[last'.email] # NoUser /\ cache[last'.email] # NoUser )
        => /\ (Free(Client) /\ now - cached_at[last'.email] < CACHE_TTL)
              => last'.resolved = cache[last'.email].user
           /\ now - cached_at[last'.email] >= CACHE_TTL
              => last'.resp.status = 200 /\ last'.resolved = db[last'.email] ]_vars

\* C18 (OpsSpec): when a login, a refresh or an email confirmation that wrote
\* the users table has answered 200, the cache holds no live entry for that
\* user that differs from the row of the table.
C18_WriteThrough ==
    [][ ( /\ AnswerStep /\ last'.op \in {"login", "refresh", "confirm"}
          /\ last'.resp.status = 200 /\ db'[last'.email] # db[last'.email] )
        => \/ ~Live(cache', last'.email, now)
           \/ cache'[last'.email].user = db'[last'.email] ]_vars

\* C19 (OpsSpec): a ResolveCurrentUser with a valid access token of a user whose
\* row exists, during which a cache call raised, still answers 200 with the row
\* of the table.
C19_CacheFallThrough ==
    [][ ( /\ AnswerStep /\ last'.op = "me"
          /\ auth_decode_access_token(last'.token, now).status = 200
          /\ db[last'.email] # NoUser
          /\ last'.resp.detail = CacheDown.detail )
        => last'.resp.status = 200 /\ last'.resolved = db[last'.email] ]_vars

\* C20 (StoreSpec): a refresh presented with a validly signed, unexpired
\* refresh-scoped token whose subject has no row is answered with a 4xx and
\* changes neither the table nor the set of issued tokens.
C20_RefreshUnknownSubject ==
    [][ ( /\ AnswerStep /\ last'.op = "refresh"
          /\ decode_form_refresh_token(last'.token, now).status = 200
          /\ db[last'.token.sub] = NoUser )
        => /\ last'.resp.status \in 400..499
           /\ db' = db /\ issued' = issued ]_vars

\* C21 (CodecSpec): an access or refresh token issued by the Auth service with
\* expires_delta = 0 is accepted by no decode, and no token is accepted by a
\* decode made at or after its expiry.
C21_ExpiredNeverAccepted ==
    last.op = "decode"
    => /\ ( /\ last.issue.fn \in {"Auth.create_access_token", "Auth.create_refresh_token"}
             /\ last.issue.expires_delta = Delta(0) )
          => ~last.claims.ok /\ last.resp.status # 200
       /\ last.at >= last.issue.token.exp
          => ~last.claims.ok /\ last.resp.status # 200

\* C22 (CodecSpec): for every issuing function asked for an access or a refresh
\* token with a positive time to live, a decode before the expiry yields claims
\* with the subject and the scope that were asked for.
C22_RoundTrip ==
    ( /\ last.op = "decode"
      /\ last.issue.scope \in {"access_token", "refresh_token"}
      /\ last.issue.expires_delta # Delta(0)
      /\ last.at < last.issue.token.exp )
    => /\ last.claims.ok
       /\ last.claims.sub = last.issue.sub
       /\ last.claims.scope = last.issue.scope

DefaultTtl(fn) ==
    CASE fn = "Auth.create_access_token" -> ACCESS_TTL
      [] fn = "Auth.create_refresh_token" -> REFRESH_TTL
      [] OTHER -> EMAIL_TTL

\* C23 (CodecSpec): a token the Auth service issues at t without expires_delta
\* is accepted by every decode before t + 15 minutes (access), t + 7 days
\* (refresh), t + 1 day (email), and rejected by every decode from then on.
C23_DefaultExpiry ==
    ( /\ last.op = "decode"
      /\ last.issue.fn \in {"Auth.create_access_token", "Auth.create_refresh_token",
                             "Auth.create_email_token"}
      /\ last.issue.expires_delta = NoDelta )
    => last.claims.ok <=> last.at < last.issue.iat + DefaultTtl(last.issue.fn)

\* the session state of a user, read off the row
SessionState(user) ==
    IF user = NoUser THEN "Anonymous"
    ELSE IF ~user.confirmed
         THEN IF user.refresh_token = NoToken THEN "Unconfirmed" ELSE "UnconfirmedSession"
    ELSE IF user.refresh_token = NoToken THEN "LoggedOut"
    ELSE "ActiveSession"

\* the handler whose answer may move a session from one state to another
Trigger(from, to) ==
    CASE from = "Anonymous" /\ to = "Unconfirmed" -> {"signup"}
      [] from = "Unconfirmed" /\ to = "LoggedOut" -> {"confirm"}
      [] from = "LoggedOut" /\ to = "ActiveSession" -> {"login"}
      [] from = "ActiveSession" /\ to = "LoggedOut" -> {"refresh"}
      [] OTHER -> {}

\* C24 (Spec): a user's session state changes only along Anonymous ->
\* Unconfirmed (signup) -> LoggedOut (confirm) -> ActiveSession (login) ->
\* LoggedOut (refresh-token reuse), each by an answer of the handler named; and
\* a row that holds a refresh token is confirmed.
C24_SessionStateMachine ==
    [][ \A e \in Emails :
          /\ SessionState(db'[e]) # "UnconfirmedSession"
          /\ SessionState(db'[e]) # SessionState(db[e])
             => \E p \in Procs :
                   /\ Answered(p) /\ last'.email = e
                   /\ last'.op \in Trigger(SessionState(db[e]), SessionState(db'[e]))
                   /\ last'.op = "refresh" => last'.resp = Response(401, "Invalid refresh token")
      ]_vars

\* C25 (ResolveSpec): login checks that the row exists, then that it is
\* confirmed, then the password: its answer is the failure of the first check
\* that fails, and a login that fails hands out no token and leaves the users
\* table, the stored refresh token included, as it was.
C25_LoginCheckOrder ==
    [][ (Answers /\ last'.op = "login")
          => LET user == db[last'.email]
                 failure ==
                     IF user = NoUser THEN Response(401, INVALID_EMAIL)
                     ELSE IF ~user.confirmed THEN Response(401, NOT_CONFIRMED)
                     ELSE IF ~verify_password(last'.password, user.password)
                          THEN Response(401, INVALID_PASSWORD)
                     ELSE NoResponse
             IN  /\ failure # NoResponse <=> last'.resp.status # 200
                 /\ failure # NoResponse
                    => /\ last'.resp = failure
                       /\ db' = db /\ issued' = issued /\ lastIssued' = lastIssued
      ]_vars

\* an unconfirmed user logs in with a wrong password and is told the email is
\* not confirmed
C25_Witness ==
    /\ last.op = "login" /\ last.user # NoUser /\ ~last.user.confirmed
    /\ ~verify_password(last.password, last.user.password)
    /\ last.resp = Response(401, NOT_CONFIRMED)
    /\ db[last.email] = last.user

\* C26 (ResolveSpec): /protected/admin_only answers 200 only to a caller whose
\* row in the users table has role "admin", and answers 403 to every caller
\* with a valid token and a row whose role is not "admin".
C26_AdminOnly ==
    [][ (Answers /\ last'.op = "admin_only")
        => LET user == deps_get_current_user(last'.token, now, db) IN
           /\ last'.resp.status = 200 => user # NoUser /\ user.role = "admin"
           /\ (user # NoUser /\ user.role # "admin") => last'.resp.status = 403 ]_vars

\* C27 (ResolveSpec): request_email answers 200 for every email, mails a
\* verification token exactly when the email has a row that is not confirmed,
\* and leaves the users table as it was.
C27_RequestEmail ==
    [][ (Answers /\ last'.op = "request_email")
        => LET user == db[last'.email] IN
           /\ last'.resp.status = 200
           /\ db' = db
           /\ IF user # NoUser /\ ~user.confirmed
              THEN create_email_token(last'.email, now) \in issued'
              ELSE issued' = issued ]_vars

\* the login with the right password of a user who has a confirmed row
RightLogin ==
    /\ Answers /\ last'.op = "login"
    /\ db[last'.email] # NoUser /\ db[last'.email].confirmed
    /\ verify_password(last'.password, db[last'.email].password)

\* the refresh that presents the token of the user's latest login, no other
\* login or refresh of the user having been answered since
RefreshAfterLogin ==
    /\ Answers /\ last'.op = "refresh"
    /\ Len(log) > 0
    /\ log[Len(log)].op = "login" /\ log[Len(log)].email = last'.token.sub
    /\ last'.token = log[Len(log)].resp.refresh_token

\* C28 (RecoverSpec): a login with the right password of a confirmed user
\* succeeds, whatever the stored token is, and the refresh token it returns is
\* accepted by the next refresh of the user that presents it before it expires.
C28_Recoverable ==
    [][ /\ RightLogin
           => last'.resp.status = 200
              /\ db'[last'.email].refresh_token = last'.resp.refresh_token
        /\ (RefreshAfterLogin /\ jwt_decode_ok(last'.token, now))
           => last'.resp.status = 200 ]_vars

\* a session revoked for the reuse of a token, opened again by a login, and
\* refreshed with the token of that login
C28_Witness ==
    /\ Len(log) >= 3
    /\ LET n == Len(log) IN
       /\ log[n - 2].op = "refresh" /\ log[n - 2].resp = Response(401, "Invalid refresh token")
       /\ log[n - 2].user.refresh_token # NoToken
       /\ log[n - 1].op = "login" /\ log[n - 1].user.refresh_token = NoToken
       /\ log[n].op = "refresh" /\ log[n].resp.status = 200
       /\ log[n].token = log[n - 1].resp.refresh_token
       /\ last = log[n]

====
